---- MODULE Spec2Model ----
(***************************************************************************)
(* Thread scheduling core of the "Tifflin" kernel                          *)
(* (Kernel/Core/threads/mod.rs): run queue, reap queue, reschedule, the    *)
(* idle loop, termination and process exit, on one CPU.                    *)
(*                                                                         *)
(* A thread control block (TCB) is identified by a number: 0 is            *)
(* "ThreadZero" built by init(), 1..MaxThreads are spawned threads and     *)
(* IdleTcb is the CPU's idle thread.  An Option<T> is a sequence of        *)
(* length at most one: <<>> is None and <<x>> is Some(x).                  *)
(***************************************************************************)
EXTENDS Integers, Sequences, FiniteSets, TLC

\* ------------------------------------------------------------- bounds
MaxThreads == 2
NumWaitQueues == 1
NumUserProcs == 1
MaxStatus == 1
MaxPush == 3
MaxReap == 3
NumTypes == 2
NumWorkers == 3
NumHandles == 2
MaxWork == 1
MaxPkts == 1

IdleTcb == MaxThreads + 1
Spawned == 1..MaxThreads
Tcbs == 0..IdleTcb
WaitQueues == 1..NumWaitQueues
Pids == 0..NumUserProcs
Statuses == 0..MaxStatus
Types == 1..NumTypes
Workers == 1..NumWorkers
PlThreads == 0..MaxThreads
Handles == 1..NumHandles

None == <<>>
Some(x) == <<x>>

VARIABLES
    cur,         \* the CPU-local pointer to the executing TCB
    runq,        \* s_runnable_threads
    reapq,       \* S_TO_REAP_THREADS
    waitq,       \* the wait queues, WaitQueues -> sequence of TCBs
    pc,          \* each thread's position (where it resumes when switched to)
    runState,    \* each TCB's run state
    alive,       \* the TCBs that exist (created, not freed)
    freed,       \* the TCBs the reaper dropped
    nextTid,     \* the next thread ID to allocate
    proc,        \* the owning process of each TCB
    exitStatus,  \* the exit-status cell of each process, an Option
    panic,       \* "none", or the message of the kernel panic
    ytAlone,     \* the latest yield_time() was called with both queues empty
    last,        \* the last scheduler step: what ran, who ran it, what it did
    pushed,      \* run-queue exercise: every thread pushed, in order
    popped,      \* run-queue exercise: every thread popped, in order
    pld,         \* proc_local_data of the process: [type, inst] entries
    plPc,        \* each thread's position in get_process_local
    plWant,      \* the type each thread asked for
    plRet,       \* the instance each thread's last call returned, an Option
    plWriter,    \* the thread holding the cache's write lock, an Option
    soFlag,      \* each sleep object's posted flag
    soWaiter,    \* each sleep object's parked waiter (TRUE: the spawner)
    wkPc,        \* each worker's position
    spAt,        \* the sleep object the spawner waits on next
    spSt,        \* the spawner: "run", "sleep" or "woken"
    spEarly,     \* posts already made when the spawner first called wait()
    wtState,     \* each WorkerThread's thread: where it is in its life
    wtLeft,      \* the steps its closure still has to run
    whState,     \* each WorkerThread handle: what its owner does with it
    whRet,       \* the result of the owner's latest wait() on it
    irqOn,       \* the CPU's interrupt-enable flag
    lkRun,       \* who holds the run queue's spinlock: "free", "thread", "irq"
    lkReap,      \* who holds the reap queue's spinlock
    ipc,         \* lock exercise: where the code in thread context stands
    iqCtx,       \* lock exercise: "thread" or "idle", whose code that is
    iqOp,        \* lock exercise: the operation in progress
    iqSaved,     \* the flag hold_interrupts() saved, restored by its guard
    iqRv,        \* reap_threads()'s rv
    iqGot,       \* what get_thread_to_run() returned: "none", "other", "self"
    irq,         \* the timer handler: "none", "handler", "locked", "spin"
    ifList,      \* INTERFACES_LIST: a sequence of Options of registrations
    ifLock,      \* who holds the INTERFACES_LIST mutex: 0 or a registration
    rgPc,        \* each Registration: "none", "made", "live", "dropping", "dropped"
    rgIndex,     \* each Registration's index (0 until it has one)
    rxPc,        \* each "Network Rx" worker: "none", "start", "wait", "parked", "poll"
    rxFlag,      \* the posted flag of each worker's sleep object
    rxPending,   \* packets the interface holds for its worker
    nicPanic     \* the kernel panic raised by the NIC code, "none" without

sched == <<cur, runq, reapq, waitq, pc, runState, alive, freed, nextTid, proc,
           exitStatus, panic, ytAlone, last>>
queueAux == <<pushed, popped>>
plAux == <<pld, plPc, plWant, plRet, plWriter>>
soAux == <<soFlag, soWaiter, wkPc, spAt, spSt, spEarly>>
wtAux == <<wtState, wtLeft, whState, whRet>>
irqAux == <<irqOn, lkRun, lkReap, ipc, iqCtx, iqOp, iqSaved, iqRv, iqGot, irq>>
nicAux == <<ifList, ifLock, rgPc, rgIndex, rxPc, rxFlag, rxPending, nicPanic>>
ext == <<wtAux, irqAux, nicAux>>
aux == <<queueAux, plAux, soAux, ext>>
vars == <<sched, aux>>

\* ------------------------------------------------- Thread, ThreadList
\* Thread::get_tid: the idle thread is built with thread ID 0 as well.
get_tid(t) == IF t = IdleTcb THEN 0 ELSE t

\* ThreadList::push appends to the back.
Push(q, t) == Append(q, t)
\* ThreadList::empty
Empty(q) == Len(q) = 0
\* ThreadList::pop removes the front: the popped Option and the rest.
Pop(q) == IF Len(q) = 0 THEN [got |-> None, rest |-> q]
          ELSE [got |-> Some(Head(q)), rest |-> Tail(q)]

\* Process::mark_exit: the cell is written once, a second writer gets Err.
mark_exit(cell, status) ==
    IF cell = None THEN [ok |-> TRUE, cell |-> Some(status)]
    ELSE [ok |-> FALSE, cell |-> cell]

\* ThreadPtr::into_boxed fails for a thread that is not heap-owned (ID 0).
into_boxed_ok(t) == get_tid(t) # 0

\* ------------------------------------------------------ mod.rs helpers
\* Faulty variants of get_thread_to_run(): one returns the front without
\* removing it, one takes the back, one tests empty() the wrong way round.
get_thread_to_run_peek(q) ==
    IF Empty(q) THEN [got |-> None, rest |-> q]
    ELSE [got |-> Some(Head(q)), rest |-> q]

get_thread_to_run_lifo(q) ==
    IF Empty(q) THEN [got |-> None, rest |-> q]
    ELSE [got |-> Some(q[Len(q)]), rest |-> SubSeq(q, 1, Len(q) - 1)]

get_thread_to_run_inverted(q) ==
    IF ~Empty(q) THEN [got |-> None, rest |-> q] ELSE Pop(q)

\* get_thread_to_run(): None on an empty run queue, else the popped front.
get_thread_to_run(q) ==
    IF Empty(q) THEN [got |-> None, rest |-> q] ELSE Pop(q)

\* Faulty variants of reschedule(): one returns from a switch to self
\* without idling, one queues the idle thread instead of forgetting it.
reschedule_noidle(c, q) ==
    LET r == get_thread_to_run(q) IN
    IF r.got # None
    THEN [cur |-> r.got[1], runq |-> r.rest, idle |-> FALSE, got |-> r.got]
    ELSE [cur |-> IdleTcb, runq |-> r.rest, idle |-> FALSE, got |-> None]

reschedule_requeue(c, q) ==
    LET r == get_thread_to_run(q) IN
    IF r.got # None
    THEN [cur |-> r.got[1], runq |-> r.rest, idle |-> r.got[1] = c, got |-> r.got]
    ELSE IF IdleTcb # c
         THEN [cur |-> IdleTcb, runq |-> r.rest, idle |-> FALSE, got |-> None]
         ELSE [cur |-> c, runq |-> Push(r.rest, c), idle |-> FALSE, got |-> None]

\* Faulty variant: with nothing to run the caller keeps the CPU.
reschedule_stay(c, q) ==
    LET r == get_thread_to_run(q) IN
    IF r.got # None
    THEN [cur |-> r.got[1], runq |-> r.rest, idle |-> r.got[1] = c, got |-> r.got]
    ELSE [cur |-> c, runq |-> r.rest, idle |-> FALSE, got |-> None]

\* Faulty variant: arch idle() after every switch to a popped thread.
reschedule_idles(c, q) ==
    LET r == get_thread_to_run(q) IN
    IF r.got # None
    THEN [cur |-> r.got[1], runq |-> r.rest, idle |-> TRUE, got |-> r.got]
    ELSE IF IdleTcb # c
         THEN [cur |-> IdleTcb, runq |-> r.rest, idle |-> FALSE, got |-> None]
         ELSE [cur |-> c, runq |-> r.rest, idle |-> FALSE, got |-> None]

\* Faulty variant: the caller is put back on the run queue when another
\* thread is switched to.
reschedule_pushcur(c, q) ==
    LET r == get_thread_to_run(q) IN
    IF r.got # None
    THEN IF r.got[1] = c
         THEN [cur |-> c, runq |-> r.rest, idle |-> TRUE, got |-> r.got]
         ELSE [cur |-> r.got[1], runq |-> Push(r.rest, c), idle |-> FALSE,
               got |-> r.got]
    ELSE IF IdleTcb # c
         THEN [cur |-> IdleTcb, runq |-> r.rest, idle |-> FALSE, got |-> None]
         ELSE [cur |-> c, runq |-> r.rest, idle |-> FALSE, got |-> None]

\* reschedule() called by thread c with run queue q: the thread that runs
\* next, the run queue left, and whether the arch's idle() was executed.
reschedule(c, q) ==
    LET r == get_thread_to_run(q) IN
    IF r.got # None
    THEN IF r.got[1] = c
         THEN [cur |-> c, runq |-> r.rest, idle |-> TRUE, got |-> r.got]
         ELSE [cur |-> r.got[1], runq |-> r.rest, idle |-> FALSE, got |-> r.got]
    ELSE IF IdleTcb # c
         THEN [cur |-> IdleTcb, runq |-> r.rest, idle |-> FALSE, got |-> None]
         ELSE [cur |-> c, runq |-> r.rest, idle |-> FALSE, got |-> None]

\* Faulty variant of the loop of reap_threads(): no assertion.
RECURSIVE reap_loop_noassert(_, _, _, _)
reap_loop_noassert(c, q, f, rv) ==
    LET p == Pop(q) IN
    IF p.got = None
    THEN [reapq |-> q, freed |-> f, rv |-> rv, panic |-> "none"]
    ELSE reap_loop_noassert(c, p.rest,
                        IF into_boxed_ok(p.got[1]) THEN f \cup {p.got[1]} ELSE f,
                        TRUE)

\* reap_threads() run by thread c: pops until the reap queue is empty or the
\* assertion fails; f is the set of TCBs dropped so far.
RECURSIVE reap_loop(_, _, _, _)
reap_loop(c, q, f, rv) ==
    LET p == Pop(q) IN
    IF p.got = None
    THEN [reapq |-> q, freed |-> f, rv |-> rv, panic |-> "none"]
    ELSE IF p.got[1] = c
         THEN [reapq |-> p.rest, freed |-> f, rv |-> rv,
               panic |-> "Reaping thread from itself"]
         ELSE reap_loop(c, p.rest,
                        IF into_boxed_ok(p.got[1]) THEN f \cup {p.got[1]} ELSE f,
                        TRUE)

\* Faulty variant: one pop per call, an "if let" for the "while let".
reap_threads_once(c, q) ==
    LET p == Pop(q) IN
    IF p.got = None
    THEN [reapq |-> q, freed |-> {}, rv |-> FALSE, panic |-> "none"]
    ELSE IF p.got[1] = c
         THEN [reapq |-> p.rest, freed |-> {}, rv |-> FALSE,
               panic |-> "Reaping thread from itself"]
         ELSE [reapq |-> p.rest,
               freed |-> IF into_boxed_ok(p.got[1]) THEN {p.got[1]} ELSE {},
               rv |-> TRUE, panic |-> "none"]

reap_threads(c, q) == reap_loop(c, q, {}, FALSE)

Step(op, by, r, arg) ==
    [op |-> op, by |-> by, idle |-> r.idle, got |-> r.got, arg |-> arg]
NoSwitch == [idle |-> FALSE, got |-> None]

\* ------------------------------------------------------------- init()
AuxInit ==
    /\ pushed = <<>> /\ popped = <<>>
    /\ pld = <<>>
    /\ plPc = [t \in PlThreads |-> "idle"]
    /\ plWant = [t \in PlThreads |-> 1]
    /\ plRet = [t \in PlThreads |-> None]
    /\ plWriter = None
    /\ soFlag = [w \in Workers |-> FALSE]
    /\ soWaiter = [w \in Workers |-> FALSE]
    /\ wkPc = [w \in Workers |-> "work"]
    /\ spAt = 1 /\ spSt = "run" /\ spEarly = 0
    /\ wtState = [h \in Handles |-> "none"]
    /\ wtLeft = [h \in Handles |-> 0]
    /\ whState = [h \in Handles |-> "none"]
    /\ whRet = [h \in Handles |-> "none"]
    /\ irqOn = TRUE
    /\ lkRun = "free" /\ lkReap = "free"
    /\ ipc = "ready" /\ iqCtx = "thread" /\ iqOp = "none"
    /\ iqSaved = TRUE /\ iqRv = FALSE /\ iqGot = "none"
    /\ irq = "none"
    /\ ifList = <<>> /\ ifLock = 0
    /\ rgPc = [h \in Handles |-> "none"]
    /\ rgIndex = [h \in Handles |-> 0]
    /\ rxPc = [h \in Handles |-> "none"]
    /\ rxFlag = [h \in Handles |-> FALSE]
    /\ rxPending = [h \in Handles |-> 0]
    /\ nicPanic = "none"

Init ==
    /\ AuxInit
    /\ cur = 0
    /\ runq = <<>>
    /\ reapq = <<>>
    /\ waitq = [w \in WaitQueues |-> <<>>]
    /\ pc = [t \in Tcbs |-> IF t = IdleTcb THEN "idle_top" ELSE "ready"]
    /\ runState = [t \in Tcbs |-> "Runnable"]
    /\ alive = {0, IdleTcb}
    /\ freed = {}
    /\ nextTid = 1
    /\ proc = [t \in Tcbs |-> 0]
    /\ exitStatus = [p \in Pids |-> None]
    /\ panic = "none"
    /\ ytAlone = FALSE
    /\ last = Step("init", 0, NoSwitch, 0)

Running == panic = "none"
AtReady == Running /\ cur # IdleTcb /\ pc[cur] = "ready"

\* ------------------------------------------------------- yield_time()
YieldTime ==
    /\ AtReady
    /\ pc' = [pc EXCEPT ![cur] = "yt_reap"]
    /\ ytAlone' = (Empty(runq) /\ Empty(reapq))
    /\ last' = Step("yield_time:call", cur, NoSwitch, 0)
    /\ UNCHANGED aux
    /\ UNCHANGED <<cur, runq, reapq, waitq, runState, alive, freed, nextTid,
                   proc, exitStatus, panic>>

YtReap ==
    /\ Running /\ pc[cur] = "yt_reap"
    /\ LET r == reap_threads(cur, reapq) IN
        /\ reapq' = r.reapq
        /\ freed' = freed \cup r.freed
        /\ alive' = alive \ r.freed
        /\ panic' = r.panic
    /\ pc' = [pc EXCEPT ![cur] = "yt_push"]
    /\ last' = Step("yield_time:reap", cur, NoSwitch, 0)
    /\ UNCHANGED aux
    /\ UNCHANGED <<cur, runq, waitq, runState, nextTid, proc, exitStatus, ytAlone>>

\* Faulty variant: the caller goes to the front of the run queue.
YtPushFront ==
    /\ panic = "none" /\ pc[cur] = "yt_push"
    /\ runq' = <<cur>> \o runq
    /\ pc' = [pc EXCEPT ![cur] = "yt_resched"]
    /\ last' = Step("yield_time:push", cur, NoSwitch, 0)
    /\ UNCHANGED aux
    /\ UNCHANGED <<cur, reapq, waitq, runState, alive, freed, nextTid, proc,
                   exitStatus, panic, ytAlone>>

YtPush ==
    /\ Running /\ pc[cur] = "yt_push"
    /\ runq' = Push(runq, cur)
    /\ pc' = [pc EXCEPT ![cur] = "yt_resched"]
    /\ last' = Step("yield_time:push", cur, NoSwitch, 0)
    /\ UNCHANGED aux
    /\ UNCHANGED <<cur, reapq, waitq, runState, alive, freed, nextTid, proc,
                   exitStatus, panic, ytAlone>>

YtResched ==
    /\ Running /\ pc[cur] = "yt_resched"
    /\ LET r == reschedule(cur, runq) IN
        /\ cur' = r.cur
        /\ runq' = r.runq
        /\ last' = Step("yield_time", cur, r, 0)
    /\ pc' = [pc EXCEPT ![cur] = "ready"]
    /\ UNCHANGED aux
    /\ UNCHANGED <<reapq, waitq, runState, alive, freed, nextTid, proc,
                   exitStatus, panic, ytAlone>>

\* ------------------------------------------------- terminate_thread()
TerminateThread ==
    /\ AtReady
    /\ pc' = [pc EXCEPT ![cur] = "tt_check"]
    /\ last' = Step("terminate_thread:call", cur, NoSwitch, 0)
    /\ UNCHANGED aux
    /\ UNCHANGED <<cur, runq, reapq, waitq, runState, alive, freed, nextTid,
                   proc, exitStatus, panic, ytAlone>>

\* Faulty variant: the thread ID is not looked at.
TtCheckAnyTid ==
    /\ panic = "none" /\ pc[cur] = "tt_check"
    /\ runState' = [runState EXCEPT ![cur] = "Dead"]
    /\ pc' = [pc EXCEPT ![cur] = "tt_push"]
    /\ last' = Step("terminate_thread:check", cur, NoSwitch, 0)
    /\ UNCHANGED aux
    /\ UNCHANGED <<cur, runq, reapq, waitq, alive, freed, nextTid, proc,
                   exitStatus, panic, ytAlone>>

\* Faulty variant: the run state is left as it was.
TtCheckNoDead ==
    /\ panic = "none" /\ pc[cur] = "tt_check"
    /\ IF get_tid(cur) = 0
       THEN /\ panic' = "TID 0 terminated"
            /\ UNCHANGED pc
       ELSE /\ pc' = [pc EXCEPT ![cur] = "tt_push"]
            /\ UNCHANGED panic
    /\ last' = Step("terminate_thread:check", cur, NoSwitch, 0)
    /\ UNCHANGED aux
    /\ UNCHANGED <<cur, runq, reapq, waitq, runState, alive, freed, nextTid,
                   proc, exitStatus, ytAlone>>

TtCheck ==
    /\ Running /\ pc[cur] = "tt_check"
    /\ IF get_tid(cur) = 0
       THEN /\ panic' = "TID 0 terminated"
            /\ UNCHANGED <<pc, runState>>
       ELSE /\ runState' = [runState EXCEPT ![cur] = "Dead"]
            /\ pc' = [pc EXCEPT ![cur] = "tt_push"]
            /\ UNCHANGED panic
    /\ last' = Step("terminate_thread:check", cur, NoSwitch, 0)
    /\ UNCHANGED aux
    /\ UNCHANGED <<cur, runq, reapq, waitq, alive, freed, nextTid, proc,
                   exitStatus, ytAlone>>

\* Faulty variant: no reschedule() after the push, the call returns.
TtPushReturns ==
    /\ panic = "none" /\ pc[cur] = "tt_push"
    /\ reapq' = Push(reapq, cur)
    /\ pc' = [pc EXCEPT ![cur] = "ready"]
    /\ last' = Step("terminate_thread:push", cur, NoSwitch, 0)
    /\ UNCHANGED aux
    /\ UNCHANGED <<cur, runq, waitq, runState, alive, freed, nextTid, proc,
                   exitStatus, panic, ytAlone>>

\* Faulty variant: the dying thread is queued as yield_time() queues its
\* caller, on the run queue.
TtPushRunq ==
    /\ panic = "none" /\ pc[cur] = "tt_push"
    /\ runq' = Push(runq, cur)
    /\ pc' = [pc EXCEPT ![cur] = "tt_resched"]
    /\ last' = Step("terminate_thread:push", cur, NoSwitch, 0)
    /\ UNCHANGED aux
    /\ UNCHANGED <<cur, reapq, waitq, runState, alive, freed, nextTid, proc,
                   exitStatus, panic, ytAlone>>

TtPush ==
    /\ Running /\ pc[cur] = "tt_push"
    /\ reapq' = Push(reapq, cur)
    /\ pc' = [pc EXCEPT ![cur] = "tt_resched"]
    /\ last' = Step("terminate_thread:push", cur, NoSwitch, 0)
    /\ UNCHANGED aux
    /\ UNCHANGED <<cur, runq, waitq, runState, alive, freed, nextTid, proc,
                   exitStatus, panic, ytAlone>>

TtResched ==
    /\ Running /\ pc[cur] = "tt_resched"
    /\ LET r == reschedule(cur, runq) IN
        /\ cur' = r.cur
        /\ runq' = r.runq
        /\ last' = Step("terminate_thread", cur, r, 0)
        \* control coming back from reschedule() reaches unreachable!()
        /\ panic' = IF r.cur = cur THEN "unreachable" ELSE panic
    /\ pc' = [pc EXCEPT ![cur] = "tt_unreachable"]
    /\ UNCHANGED aux
    /\ UNCHANGED <<reapq, waitq, runState, alive, freed, nextTid, proc,
                   exitStatus, ytAlone>>

\* ----------------------------------------------- exit_process(status)
\* Faulty variant: the result of mark_exit is ignored and the cell rewritten.
ExitProcessOverwrite(status) ==
    /\ panic = "none" /\ cur # IdleTcb /\ pc[cur] = "ready"
    /\ exitStatus' = [exitStatus EXCEPT ![proc[cur]] = Some(status)]
    /\ pc' = [pc EXCEPT ![cur] = "tt_check"]
    /\ last' = Step("exit_process", cur, NoSwitch, status)
    /\ UNCHANGED aux
    /\ UNCHANGED <<cur, runq, reapq, waitq, runState, alive, freed, nextTid,
                   proc, panic, ytAlone>>

\* Faulty variant: the other threads of the process are marked Dead too.
ExitProcessKillAll(status) ==
    /\ panic = "none" /\ cur # IdleTcb /\ pc[cur] = "ready"
    /\ LET m == mark_exit(exitStatus[proc[cur]], status) IN
        IF m.ok
        THEN /\ exitStatus' = [exitStatus EXCEPT ![proc[cur]] = m.cell]
             /\ pc' = [pc EXCEPT ![cur] = "tt_check"]
             /\ runState' = [t \in Tcbs |->
                               IF t \in alive /\ t # cur /\ proc[t] = proc[cur]
                               THEN "Dead" ELSE runState[t]]
             /\ UNCHANGED panic
        ELSE /\ panic' = "Two threads raced to exit"
             /\ UNCHANGED <<exitStatus, pc, runState>>
    /\ last' = Step("exit_process", cur, NoSwitch, status)
    /\ UNCHANGED aux
    /\ UNCHANGED <<cur, runq, reapq, waitq, alive, freed, nextTid, proc,
                   ytAlone>>

ExitProcess(status) ==
    /\ AtReady
    /\ LET m == mark_exit(exitStatus[proc[cur]], status) IN
        IF m.ok
        THEN /\ exitStatus' = [exitStatus EXCEPT ![proc[cur]] = m.cell]
             /\ pc' = [pc EXCEPT ![cur] = "tt_check"]
             /\ UNCHANGED panic
        ELSE /\ panic' = "Two threads raced to exit"
             /\ UNCHANGED <<exitStatus, pc>>
    /\ last' = Step("exit_process", cur, NoSwitch, status)
    /\ UNCHANGED aux
    /\ UNCHANGED <<cur, runq, reapq, waitq, runState, alive, freed, nextTid,
                   proc, ytAlone>>

\* ------------------------------------------------------- reschedule()
\* A bare call of reschedule() by the running thread.
Reschedule ==
    /\ AtReady
    /\ LET r == reschedule(cur, runq) IN
        /\ cur' = r.cur
        /\ runq' = r.runq
        /\ last' = Step("reschedule", cur, r, 0)
    /\ UNCHANGED aux
    /\ UNCHANGED <<reapq, waitq, pc, runState, alive, freed, nextTid, proc,
                   exitStatus, panic, ytAlone>>

\* ------------------------------------------------------ idle_thread()
\* Faulty variant: the test of reap_threads()'s result is the wrong way round.
IdleTopInverted ==
    /\ panic = "none" /\ cur = IdleTcb /\ pc[cur] = "idle_top"
    /\ LET r == reap_threads(cur, reapq) IN
        /\ reapq' = r.reapq
        /\ freed' = freed \cup r.freed
        /\ alive' = alive \ r.freed
        /\ panic' = r.panic
        /\ pc' = [pc EXCEPT ![cur] = IF r.rv THEN "idle_poll" ELSE "idle_resched"]
    /\ last' = Step("idle_thread:reap", cur, NoSwitch,
                    IF reap_threads(cur, reapq).rv THEN 1 ELSE 0)
    /\ UNCHANGED aux
    /\ UNCHANGED <<cur, runq, waitq, runState, nextTid, proc, exitStatus, ytAlone>>

\* A pass starts with reap_threads(); last.arg is 1 when it reaped, else 0.
IdleTop ==
    /\ Running /\ cur = IdleTcb /\ pc[cur] = "idle_top"
    /\ LET r == reap_threads(cur, reapq) IN
        /\ reapq' = r.reapq
        /\ freed' = freed \cup r.freed
        /\ alive' = alive \ r.freed
        /\ panic' = r.panic
        /\ pc' = [pc EXCEPT ![cur] = IF r.rv THEN "idle_resched" ELSE "idle_poll"]
    /\ last' = Step("idle_thread:reap", cur, NoSwitch,
                    IF reap_threads(cur, reapq).rv THEN 1 ELSE 0)
    /\ UNCHANGED aux
    /\ UNCHANGED <<cur, runq, waitq, runState, nextTid, proc, exitStatus, ytAlone>>

IdlePoll ==
    /\ Running /\ cur = IdleTcb /\ pc[cur] = "idle_poll"
    /\ LET r == get_thread_to_run(runq) IN
        /\ runq' = r.rest
        /\ cur' = IF r.got # None THEN r.got[1] ELSE cur
        /\ last' = Step("idle_thread", cur, [idle |-> r.got = None, got |-> r.got], 0)
    /\ pc' = [pc EXCEPT ![cur] = "idle_top"]
    /\ UNCHANGED aux
    /\ UNCHANGED <<reapq, waitq, runState, alive, freed, nextTid, proc,
                   exitStatus, panic, ytAlone>>

IdleResched ==
    /\ Running /\ cur = IdleTcb /\ pc[cur] = "idle_resched"
    /\ LET r == reschedule(cur, runq) IN
        /\ cur' = r.cur
        /\ runq' = r.runq
        /\ last' = Step("idle_thread:reschedule", cur, r, 0)
    /\ pc' = [pc EXCEPT ![cur] = "idle_top"]
    /\ UNCHANGED aux
    /\ UNCHANGED <<reapq, waitq, runState, alive, freed, nextTid, proc,
                   exitStatus, panic, ytAlone>>

\* ------------------------------------- thread creation and yield_to()
\* A new thread of process p is created and the creator yields to it.
Spawn(p) ==
    /\ AtReady
    /\ nextTid <= MaxThreads
    /\ LET n == nextTid IN
        /\ alive' = alive \cup {n}
        /\ proc' = [proc EXCEPT ![n] = p]
        /\ runq' = Push(runq, cur)
        /\ cur' = n
    /\ nextTid' = nextTid + 1
    /\ last' = Step("yield_to", cur, NoSwitch, 0)
    /\ UNCHANGED aux
    /\ UNCHANGED <<reapq, waitq, pc, runState, freed, exitStatus, panic, ytAlone>>

\* ---------------------------------------------------------- WaitQueue
Wait(w) ==
    /\ AtReady
    /\ runState' = [runState EXCEPT ![cur] = "Blocked"]
    /\ waitq' = [waitq EXCEPT ![w] = Push(waitq[w], cur)]
    /\ LET r == reschedule(cur, runq) IN
        /\ cur' = r.cur
        /\ runq' = r.runq
        /\ last' = Step("wait", cur, r, 0)
    /\ UNCHANGED aux
    /\ UNCHANGED <<reapq, pc, alive, freed, nextTid, proc, exitStatus, panic,
                   ytAlone>>

\* A wake comes from the running thread, or from an interrupt handler while
\* the idle thread sits between two passes of its loop (in arch idle()).
CanWake == AtReady \/ (Running /\ cur = IdleTcb /\ pc[cur] = "idle_top")

WakeOne(w) ==
    /\ CanWake
    /\ LET p == Pop(waitq[w]) IN
        /\ p.got # None
        /\ waitq' = [waitq EXCEPT ![w] = p.rest]
        /\ runState' = [runState EXCEPT ![p.got[1]] = "Runnable"]
        /\ runq' = Push(runq, p.got[1])
    /\ last' = Step("wake_one", cur, NoSwitch, 1)
    /\ UNCHANGED aux
    /\ UNCHANGED <<cur, reapq, pc, alive, freed, nextTid, proc, exitStatus,
                   panic, ytAlone>>

WakeAll(w) ==
    /\ CanWake
    /\ Len(waitq[w]) > 0
    /\ waitq' = [waitq EXCEPT ![w] = <<>>]
    /\ runState' = [t \in Tcbs |->
                      IF \E i \in 1..Len(waitq[w]) : waitq[w][i] = t
                      THEN "Runnable" ELSE runState[t]]
    /\ runq' = runq \o waitq[w]
    /\ last' = Step("wake_all", cur, NoSwitch, Len(waitq[w]))
    /\ UNCHANGED aux
    /\ UNCHANGED <<cur, reapq, pc, alive, freed, nextTid, proc, exitStatus,
                   panic, ytAlone>>

\* ---------------------------------------------------------------- spec
\* Process IDs are handed out in order: a new thread joins a process that
\* exists or starts the one with the next ID.
OpenPids == {p \in Pids : p = 0 \/ \E t \in 0..(nextTid - 1) : proc[t] = p - 1}

Next ==
    \/ YieldTime \/ YtReap \/ YtPush \/ YtResched
    \/ TerminateThread \/ TtCheck \/ TtPush \/ TtResched
    \/ \E s \in Statuses : ExitProcess(s)
    \/ Reschedule
    \/ IdleTop \/ IdlePoll \/ IdleResched
    \/ \E p \in OpenPids : Spawn(p)
    \/ \E w \in WaitQueues : Wait(w)
    \/ \E w \in WaitQueues : WakeOne(w)
    \/ \E w \in WaitQueues : WakeAll(w)

Spec == Init /\ [][Next]_vars

TypeOK ==
    /\ cur \in Tcbs
    /\ alive \subseteq Tcbs
    /\ freed \subseteq Tcbs
    /\ \A t \in Tcbs : runState[t] \in {"Runnable", "Blocked", "Dead"}
\* The scheduler with every thread in process 0 and a CPU that never stops
\* executing while a step is possible.
NextLive ==
    \/ YieldTime \/ YtReap \/ YtPush \/ YtResched
    \/ TerminateThread \/ TtCheck \/ TtPush \/ TtResched
    \/ \E s \in Statuses : ExitProcess(s)
    \/ Reschedule
    \/ IdleTop \/ IdlePoll \/ IdleResched
    \/ Spawn(0)
    \/ \E w \in WaitQueues : Wait(w)
    \/ \E w \in WaitQueues : WakeOne(w)
    \/ \E w \in WaitQueues : WakeAll(w)

SpecLive == Init /\ [][NextLive]_vars /\ WF_vars(NextLive)

\* ------------------------------------------- the scheduler under a timer
\* The timer interrupt: its handler calls reschedule() on top of whatever the
\* running thread was doing.  The interrupted thread keeps its position and
\* goes on from there if it is ever switched to again.  The interrupt is
\* taken between two steps of the model, where no spinlock is held.
TimerResched ==
    /\ Running
    /\ LET r == reschedule(cur, runq) IN
        /\ cur' = r.cur
        /\ runq' = r.runq
        /\ last' = Step("timer", cur, r, 0)
    /\ UNCHANGED aux
    /\ UNCHANGED <<reapq, waitq, pc, runState, alive, freed, nextTid, proc,
                   exitStatus, panic, ytAlone>>

NextTimer == NextLive \/ TimerResched

SpecTimer == Init /\ [][NextTimer]_vars

\* ------------------------------------------ threads that only yield
\* Threads are created with yield_to() and from then on do nothing but call
\* yield_time(); whoever holds the CPU keeps taking steps.
NextRotate ==
    \/ YieldTime \/ YtReap \/ YtPush \/ YtResched
    \/ \E p \in Pids : Spawn(p)

SpecRotate == Init /\ [][NextRotate]_vars /\ WF_vars(NextRotate)

\* ------------------------------------------- the run queue on its own
\* Pushes and pops of s_runnable_threads alone, with the history of both.
\* The pop is get_thread_to_run(); last.arg is 1 when the history says the
\* queue held nothing at the call (as many pops as pushes), else 0.
QPush(t) ==
    /\ Len(pushed) < MaxPush
    /\ runq' = Push(runq, t)
    /\ pushed' = Append(pushed, t)
    /\ last' = Step("push", t, NoSwitch, 0)
    /\ UNCHANGED <<popped, plAux, soAux, ext>>
    /\ UNCHANGED <<cur, reapq, waitq, pc, runState, alive, freed, nextTid, proc,
                   exitStatus, panic, ytAlone>>

QPop ==
    /\ LET r == get_thread_to_run(runq) IN
        /\ runq' = r.rest
        /\ popped' = IF r.got # None THEN Append(popped, r.got[1]) ELSE popped
        /\ last' = Step("pop", cur, [idle |-> FALSE, got |-> r.got],
                        IF Len(popped) = Len(pushed) THEN 1 ELSE 0)
    /\ UNCHANGED <<pushed, plAux, soAux, ext>>
    /\ UNCHANGED <<cur, reapq, waitq, pc, runState, alive, freed, nextTid, proc,
                   exitStatus, panic, ytAlone>>

NextQueue == (\E t \in Tcbs : QPush(t)) \/ QPop

SpecQueue == Init /\ [][NextQueue]_vars

\* --------------------------------------------- the reaper on its own
\* reap_threads() applied once to any reap queue of at most MaxReap distinct
\* TCBs, run by any thread: the self-reap case is built by hand, as a test of
\* the assertion would build it.
RECURSIVE SeqsOver(_, _)
SeqsOver(S, n) ==
    IF n = 0 THEN {<<>>}
    ELSE LET shorter == SeqsOver(S, n - 1) IN
         shorter \cup {Append(q, t) : q \in shorter, t \in S}

Distinct(q) == \A i, j \in 1..Len(q) : q[i] = q[j] => i = j
ReapInputs == {q \in SeqsOver(Tcbs, MaxReap) : Distinct(q)}

InitReap ==
    /\ AuxInit
    /\ cur \in Tcbs
    /\ runq = <<>>
    /\ reapq \in ReapInputs
    /\ waitq = [w \in WaitQueues |-> <<>>]
    /\ pc = [t \in Tcbs |-> IF t = IdleTcb THEN "idle_top" ELSE "ready"]
    /\ runState = [t \in Tcbs |->
                     IF \E i \in 1..Len(reapq) : reapq[i] = t
                     THEN "Dead" ELSE "Runnable"]
    /\ alive = Tcbs
    /\ freed = {}
    /\ nextTid = MaxThreads + 1
    /\ proc = [t \in Tcbs |-> 0]
    /\ exitStatus = [p \in Pids |-> None]
    /\ panic = "none"
    /\ ytAlone = FALSE
    /\ last = Step("init", 0, NoSwitch, 0)

ReapCall ==
    /\ Running /\ last.op = "init"
    /\ LET r == reap_threads(cur, reapq) IN
        /\ reapq' = r.reapq
        /\ freed' = freed \cup r.freed
        /\ alive' = alive \ r.freed
        /\ panic' = r.panic
        /\ last' = Step("reap_threads", cur, NoSwitch, IF r.rv THEN 1 ELSE 0)
    /\ UNCHANGED aux
    /\ UNCHANGED <<cur, runq, waitq, pc, runState, nextTid, proc, exitStatus,
                   ytAlone>>

NextReap == ReapCall

SpecReap == InitReap /\ [][NextReap]_vars

\* ------------------------------------------------ get_process_local<T>
\* The threads of one process call get_process_local, each call in three
\* steps that other threads' steps may come between: the scan under the read
\* lock, taking the write lock, and the scan-then-insert under the write
\* lock.  A cache entry is [type, inst]; inst names the Aref allocated.
pl_find(cache, ty) ==
    LET hits == {i \in 1..Len(cache) : cache[i].type = ty} IN
    IF hits = {} THEN None
    ELSE Some(cache[CHOOSE i \in hits : \A j \in hits : i <= j].inst)

\* Faulty variant of the locked part: no second scan.
pl_locked_noscan(cache, ty) ==
    LET fresh == Len(cache) + 1 IN
    [cache |-> Append(cache, [type |-> ty, inst |-> fresh]), ret |-> Some(fresh)]

\* Lines 208-221: scan again under the write lock, create on a miss.
pl_locked(cache, ty) ==
    LET found == pl_find(cache, ty)
        fresh == Len(cache) + 1
    IN  IF found # None
        THEN [cache |-> cache, ret |-> found]
        ELSE [cache |-> Append(cache, [type |-> ty, inst |-> fresh]),
              ret |-> Some(fresh)]

PlFrame == UNCHANGED <<sched, queueAux, soAux, ext>>

PlCall(t, ty) ==
    /\ plPc[t] = "idle"
    /\ plPc' = [plPc EXCEPT ![t] = "read"]
    /\ plWant' = [plWant EXCEPT ![t] = ty]
    /\ plRet' = [plRet EXCEPT ![t] = None]
    /\ UNCHANGED <<pld, plWriter>>
    /\ PlFrame

PlRead(t) ==
    /\ plPc[t] = "read"
    /\ plWriter = None
    /\ LET found == pl_find(pld, plWant[t]) IN
        /\ plPc' = [plPc EXCEPT ![t] = IF found # None THEN "idle" ELSE "write"]
        /\ plRet' = [plRet EXCEPT ![t] = found]
    /\ UNCHANGED <<pld, plWant, plWriter>>
    /\ PlFrame

PlWrite(t) ==
    /\ plPc[t] = "write"
    /\ plWriter = None
    /\ plWriter' = Some(t)
    /\ plPc' = [plPc EXCEPT ![t] = "locked"]
    /\ UNCHANGED <<pld, plWant, plRet>>
    /\ PlFrame

PlLocked(t) ==
    /\ plPc[t] = "locked"
    /\ plWriter = Some(t)
    /\ LET r == pl_locked(pld, plWant[t]) IN
        /\ pld' = r.cache
        /\ plRet' = [plRet EXCEPT ![t] = r.ret]
    /\ plWriter' = None
    /\ plPc' = [plPc EXCEPT ![t] = "idle"]
    /\ UNCHANGED plWant
    /\ PlFrame

NextPL ==
    \/ \E t \in PlThreads, ty \in Types : PlCall(t, ty)
    \/ \E t \in PlThreads : PlRead(t)
    \/ \E t \in PlThreads : PlWrite(t)
    \/ \E t \in PlThreads : PlLocked(t)

InitPL ==
    /\ AuxInit
    /\ cur = 0
    /\ runq = <<>>
    /\ reapq = <<>>
    /\ waitq = [w \in WaitQueues |-> <<>>]
    /\ pc = [t \in Tcbs |-> IF t = IdleTcb THEN "idle_top" ELSE "ready"]
    /\ runState = [t \in Tcbs |-> "Runnable"]
    /\ alive = Tcbs
    /\ freed = {}
    /\ nextTid = MaxThreads + 1
    /\ proc = [t \in Tcbs |-> 0]
    /\ exitStatus = [p \in Pids |-> None]
    /\ panic = "none"
    /\ ytAlone = FALSE
    /\ last = Step("init", 0, NoSwitch, 0)

SpecPL == InitPL /\ [][NextPL]_vars

\* ------------------------------------------------------- SleepObject
\* Worker w posts once to sleep object w; the spawner waits on the objects
\* one after the other.
\* SleepObject::wait: a set flag is consumed, else the caller is parked.
so_wait(flag, waiter) ==
    IF flag THEN [flag |-> FALSE, waiter |-> waiter, parked |-> FALSE]
    ELSE [flag |-> FALSE, waiter |-> TRUE, parked |-> TRUE]

\* Faulty variant of the post: nothing is recorded when nobody waits.
so_signal_lossy(flag, waiter) ==
    IF waiter THEN [flag |-> flag, waiter |-> FALSE, woke |-> TRUE]
    ELSE [flag |-> flag, waiter |-> FALSE, woke |-> FALSE]

\* SleepObject::signal: a parked waiter is made runnable, else the flag is set.
so_signal(flag, waiter) ==
    IF waiter THEN [flag |-> flag, waiter |-> FALSE, woke |-> TRUE]
    ELSE [flag |-> TRUE, waiter |-> FALSE, woke |-> FALSE]

SoFrame == UNCHANGED <<sched, queueAux, plAux, ext>>
Posted == {w \in Workers : wkPc[w] = "done"}

WkWork(w) ==
    /\ wkPc[w] = "work"
    /\ wkPc' = [wkPc EXCEPT ![w] = "post"]
    /\ UNCHANGED <<soFlag, soWaiter, spAt, spSt, spEarly>>
    /\ SoFrame

WkPost(w) ==
    /\ wkPc[w] = "post"
    /\ LET r == so_signal(soFlag[w], soWaiter[w]) IN
        /\ soFlag' = [soFlag EXCEPT ![w] = r.flag]
        /\ soWaiter' = [soWaiter EXCEPT ![w] = r.waiter]
        /\ spSt' = IF r.woke THEN "woken" ELSE spSt
    /\ wkPc' = [wkPc EXCEPT ![w] = "done"]
    /\ UNCHANGED <<spAt, spEarly>>
    /\ SoFrame

SpWait ==
    /\ spSt = "run" /\ spAt \in Workers
    /\ LET r == so_wait(soFlag[spAt], soWaiter[spAt]) IN
        /\ soFlag' = [soFlag EXCEPT ![spAt] = r.flag]
        /\ soWaiter' = [soWaiter EXCEPT ![spAt] = r.waiter]
        /\ spSt' = IF r.parked THEN "sleep" ELSE "run"
        /\ spAt' = IF r.parked THEN spAt ELSE spAt + 1
    /\ spEarly' = IF spAt = 1 THEN Cardinality(Posted) ELSE spEarly
    /\ UNCHANGED wkPc
    /\ SoFrame

SpResume ==
    /\ spSt = "woken"
    /\ spSt' = "run"
    /\ spAt' = spAt + 1
    /\ UNCHANGED <<soFlag, soWaiter, wkPc, spEarly>>
    /\ SoFrame

NextSleep ==
    \/ \E w \in Workers : WkWork(w)
    \/ \E w \in Workers : WkPost(w)
    \/ SpWait
    \/ SpResume

\* Every thread that can run is run again: the run queue is first in, first out.
SpecSleep == Init /\ [][NextSleep]_vars /\ WF_vars(NextSleep)

\* ------------------------------------------------------ WorkerThread
\* A WorkerThread handle and the thread behind it.  The thread is "run"
\* while its closure executes, "returned" once the closure has come back,
\* "dead" after terminate_thread(), and "missing" when the handle names a
\* thread that cannot be found.  The owner holds the handle ("held"), is
\* inside wait() ("waiting"), inside the handle's drop ("dropping") or has
\* let it go ("released").
\* Faulty variant: wait() does not look at the worker's state.
wt_wait_eager(s) == IF s = "missing" THEN "Err" ELSE "Ok"

\* WorkerThread::wait(): what a waiter sees for a worker in state s.
wt_wait(s) ==
    IF s = "missing" THEN "Err" ELSE IF s = "dead" THEN "Ok" ELSE "block"

WtFrame == UNCHANGED <<sched, queueAux, plAux, soAux, irqAux, nicAux>>

WtNew(h, n, found) ==
    /\ whState[h] = "none"
    /\ whState' = [whState EXCEPT ![h] = "held"]
    /\ wtState' = [wtState EXCEPT ![h] = IF found THEN "run" ELSE "missing"]
    /\ wtLeft' = [wtLeft EXCEPT ![h] = n]
    /\ UNCHANGED whRet /\ WtFrame

WtRun(h) ==
    /\ wtState[h] = "run" /\ wtLeft[h] > 0
    /\ wtLeft' = [wtLeft EXCEPT ![h] = @ - 1]
    /\ UNCHANGED <<wtState, whState, whRet>> /\ WtFrame

WtReturn(h) ==
    /\ wtState[h] = "run" /\ wtLeft[h] = 0
    /\ wtState' = [wtState EXCEPT ![h] = "returned"]
    /\ UNCHANGED <<wtLeft, whState, whRet>> /\ WtFrame

\* the worker's terminate_thread()
WtTerminate(h) ==
    /\ wtState[h] = "returned"
    /\ wtState' = [wtState EXCEPT ![h] = "dead"]
    /\ UNCHANGED <<wtLeft, whState, whRet>> /\ WtFrame

WtWaitCall(h) ==
    /\ whState[h] = "held"
    /\ whState' = [whState EXCEPT ![h] = "waiting"]
    /\ whRet' = [whRet EXCEPT ![h] = "none"]
    /\ UNCHANGED <<wtState, wtLeft>> /\ WtFrame

WtWaitRet(h) ==
    /\ whState[h] = "waiting"
    /\ wt_wait(wtState[h]) # "block"
    /\ whState' = [whState EXCEPT ![h] = "held"]
    /\ whRet' = [whRet EXCEPT ![h] = wt_wait(wtState[h])]
    /\ UNCHANGED <<wtState, wtLeft>> /\ WtFrame

\* drop of a live handle: the implicit wait() comes first
WtDropCall(h) ==
    /\ whState[h] = "held"
    /\ whState' = [whState EXCEPT ![h] = "dropping"]
    /\ UNCHANGED <<wtState, wtLeft, whRet>> /\ WtFrame

WtDropRet(h) ==
    /\ whState[h] = "dropping"
    /\ wt_wait(wtState[h]) # "block"
    /\ whState' = [whState EXCEPT ![h] = "released"]
    /\ UNCHANGED <<wtState, wtLeft, whRet>> /\ WtFrame

WtWorker(h) == WtRun(h) \/ WtReturn(h) \/ WtTerminate(h)
WtOwner(h) == WtWaitCall(h) \/ WtWaitRet(h) \/ WtDropCall(h) \/ WtDropRet(h)

NextWorker ==
    \E h \in Handles :
        \/ \E n \in 0..MaxWork, found \in BOOLEAN : WtNew(h, n, found)
        \/ WtWorker(h)
        \/ WtOwner(h)

\* Every spawned worker keeps being scheduled, and a wait() that can return
\* does return.
SpecWorker ==
    /\ Init /\ [][NextWorker]_vars
    /\ \A h \in Handles :
          /\ WF_vars(WtWorker(h))
          /\ WF_vars(WtWaitRet(h))
          /\ WF_vars(WtDropRet(h))

\* ------------------------------------------------ network interfaces
\* nic.rs: register() spawns the "Network Rx" worker of an interface and
\* puts the interface into INTERFACES_LIST; dropping the Registration waits
\* for that worker under the list's mutex and then empties the slot.  Slots
\* are counted from 1 here.  A drop parked in WorkerThread::wait() is resumed
\* by the worker's termination, a step rx_thread() does not have.

\* insert_opt: the first empty slot takes the value, else the list grows.
insert_opt(list, val) ==
    LET free == {i \in 1..Len(list) : list[i] = None} IN
    IF free # {}
    THEN LET i == CHOOSE i \in free : \A j \in free : i <= j IN
         [list |-> [list EXCEPT ![i] = <<val>>], idx |-> i]
    ELSE [list |-> Append(list, <<val>>), idx |-> Len(list) + 1]

\* The state WorkerThread::wait() finds the worker of a registration in.
rx_state(p) == IF p = "none" THEN "missing" ELSE "run"

NicFrame == UNCHANGED <<sched, queueAux, plAux, soAux, wtAux, irqAux>>

\* register(), up to WorkerThread::new
NicRegSpawn(h) ==
    /\ nicPanic = "none" /\ rgPc[h] = "none"
    /\ rgPc' = [rgPc EXCEPT ![h] = "made"]
    /\ rxPc' = [rxPc EXCEPT ![h] = "start"]
    /\ UNCHANGED <<ifList, ifLock, rgIndex, rxFlag, rxPending, nicPanic>>
    /\ NicFrame

\* register(): insert_opt under the mutex, and the Registration returned
NicRegInsert(h) ==
    /\ nicPanic = "none" /\ rgPc[h] = "made" /\ ifLock = 0
    /\ LET r == insert_opt(ifList, h) IN
        /\ ifList' = r.list
        /\ rgIndex' = [rgIndex EXCEPT ![h] = r.idx]
    /\ rgPc' = [rgPc EXCEPT ![h] = "live"]
    /\ UNCHANGED <<ifLock, rxPc, rxFlag, rxPending, nicPanic>>
    /\ NicFrame

\* Registration::drop
NicDrop(h) ==
    /\ nicPanic = "none" /\ rgPc[h] = "live" /\ ifLock = 0
    /\ IF rgIndex[h] > Len(ifList)
       THEN /\ nicPanic' = "assertion failed: self.index < lh.len()"
            /\ UNCHANGED <<ifList, ifLock, rgPc>>
       ELSE IF ifList[rgIndex[h]] = None
       THEN /\ nicPanic' = "NIC registration pointed to unpopulated entry"
            /\ UNCHANGED <<ifList, ifLock, rgPc>>
       ELSE LET w == wt_wait(rx_state(rxPc[ifList[rgIndex[h]][1]])) IN
            IF w = "block"
            THEN /\ ifLock' = h
                 /\ rgPc' = [rgPc EXCEPT ![h] = "dropping"]
                 /\ UNCHANGED <<ifList, nicPanic>>
            ELSE IF w = "Err"
            THEN /\ nicPanic' = "Couldn't wait for NIC worker to terminate"
                 /\ UNCHANGED <<ifList, ifLock, rgPc>>
            ELSE /\ ifList' = [ifList EXCEPT ![rgIndex[h]] = None]
                 /\ rgPc' = [rgPc EXCEPT ![h] = "dropped"]
                 /\ UNCHANGED <<ifLock, nicPanic>>
    /\ UNCHANGED <<rgIndex, rxPc, rxFlag, rxPending>>
    /\ NicFrame

\* rx_thread(): the sleep object is made and handed to the interface
RxStart(h) ==
    /\ nicPanic = "none" /\ rxPc[h] = "start"
    /\ rxPc' = [rxPc EXCEPT ![h] = "wait"]
    /\ UNCHANGED <<ifList, ifLock, rgPc, rgIndex, rxFlag, rxPending, nicPanic>>
    /\ NicFrame

\* rx_thread(): so.wait()
RxWait(h) ==
    /\ nicPanic = "none" /\ rxPc[h] = "wait"
    /\ LET r == so_wait(rxFlag[h], FALSE) IN
        /\ rxFlag' = [rxFlag EXCEPT ![h] = r.flag]
        /\ rxPc' = [rxPc EXCEPT ![h] = IF r.parked THEN "parked" ELSE "poll"]
    /\ UNCHANGED <<ifList, ifLock, rgPc, rgIndex, rxPending, nicPanic>>
    /\ NicFrame

\* rx_thread(): rx_packet() and the match on its result; err is an error
\* of the interface other than NoPacket
RxPoll(h, err) ==
    /\ nicPanic = "none" /\ rxPc[h] = "poll"
    /\ IF err
       THEN /\ nicPanic' = "not yet implemented"
            /\ UNCHANGED <<rxPc, rxPending>>
       ELSE /\ rxPending' = [rxPending EXCEPT ![h] = IF @ > 0 THEN @ - 1 ELSE 0]
            /\ rxPc' = [rxPc EXCEPT ![h] = "wait"]
            /\ UNCHANGED nicPanic
    /\ UNCHANGED <<ifList, ifLock, rgPc, rgIndex, rxFlag>>
    /\ NicFrame

\* The interface has a packet and signals the worker's sleep object.
NicSignal(h) ==
    /\ nicPanic = "none" /\ rxPc[h] \in {"wait", "parked", "poll"}
    /\ rxPending[h] < MaxPkts
    /\ rxPending' = [rxPending EXCEPT ![h] = @ + 1]
    /\ LET r == so_signal(rxFlag[h], rxPc[h] = "parked") IN
        /\ rxFlag' = [rxFlag EXCEPT ![h] = r.flag]
        /\ rxPc' = [rxPc EXCEPT ![h] = IF r.woke THEN "poll" ELSE @]
    /\ UNCHANGED <<ifList, ifLock, rgPc, rgIndex, nicPanic>>
    /\ NicFrame

RxWorker(h) == RxStart(h) \/ RxWait(h) \/ \E err \in BOOLEAN : RxPoll(h, err)

NextNic ==
    \E h \in Handles :
        \/ NicRegSpawn(h)
        \/ NicRegInsert(h)
        \/ NicDrop(h)
        \/ RxWorker(h)
        \/ NicSignal(h)

\* Every worker keeps being scheduled, and a register() or a drop that can
\* go on does go on.
SpecNic ==
    /\ Init /\ [][NextNic]_vars
    /\ \A h \in Handles :
          /\ WF_vars(RxWorker(h))
          /\ WF_vars(NicRegInsert(h))
          /\ WF_vars(NicDrop(h))

\* --------------------------------------- spinlocks and the interrupt flag
\* The lock sites of mod.rs on one CPU, with the interrupt-enable flag and a
\* timer interrupt whose handler calls reschedule().  Queue contents are left
\* out: what a pop returns is any of the outcomes it can have.  ::sync::Spinlock
\* is a plain spinlock, locking it leaves the interrupt flag alone; a handler
\* that finds a lock held by the code it interrupted spins for ever ("spin").
IqOps == {"yield_time", "yield_to", "terminate_thread", "reschedule"}
IqFrame == UNCHANGED <<sched, queueAux, plAux, soAux, wtAux, nicAux>>
InThread == irq = "none"

IqCall(op) ==
    /\ InThread /\ ipc = "ready"
    /\ iqOp' = op
    /\ iqRv' = FALSE
    /\ ipc' = CASE op = "yield_time" -> "reap_lock"
                [] op = "yield_to" -> "yto_lock"
                [] op = "terminate_thread" -> "tt_lock"
                [] op = "reschedule" -> "g_hold"
    /\ UNCHANGED <<irqOn, lkRun, lkReap, iqCtx, iqSaved, iqGot, irq>> /\ IqFrame

IqIdleTop ==
    /\ InThread /\ ipc = "idle_top"
    /\ iqOp' = "idle_thread"
    /\ iqRv' = FALSE
    /\ ipc' = "reap_lock"
    /\ UNCHANGED <<irqOn, lkRun, lkReap, iqCtx, iqSaved, iqGot, irq>> /\ IqFrame

\* reap_threads(): S_TO_REAP_THREADS.lock() in the loop's condition
IqReapLock ==
    /\ InThread /\ ipc = "reap_lock" /\ lkReap = "free"
    /\ lkReap' = "thread"
    /\ ipc' = "reap_body"
    /\ UNCHANGED <<irqOn, lkRun, iqCtx, iqOp, iqSaved, iqRv, iqGot, irq>>
    /\ IqFrame

\* the pop and, for a popped thread, the body; the guard goes at the end of
\* the iteration
IqReapBody(some) ==
    /\ InThread /\ ipc = "reap_body"
    /\ lkReap' = "free"
    /\ IF some
       THEN /\ iqRv' = TRUE
            /\ ipc' = "reap_lock"
            /\ UNCHANGED iqOp
       ELSE /\ UNCHANGED iqRv
            /\ ipc' = IF iqOp = "yield_time" THEN "yt_lock"
                      ELSE IF iqRv THEN "g_hold" ELSE "id_stop"
            /\ iqOp' = IF iqOp = "idle_thread" /\ iqRv
                       THEN "idle_thread:reschedule" ELSE iqOp
    /\ UNCHANGED <<irqOn, lkRun, iqCtx, iqSaved, iqGot, irq>> /\ IqFrame

\* yield_time(): s_runnable_threads.lock().push(..)
IqYtLock ==
    /\ InThread /\ ipc = "yt_lock" /\ lkRun = "free"
    /\ lkRun' = "thread"
    /\ ipc' = "yt_push"
    /\ UNCHANGED <<irqOn, lkReap, iqCtx, iqOp, iqSaved, iqRv, iqGot, irq>>
    /\ IqFrame

IqYtPush ==
    /\ InThread /\ ipc = "yt_push"
    /\ lkRun' = "free"
    /\ ipc' = "g_hold"
    /\ UNCHANGED <<irqOn, lkReap, iqCtx, iqOp, iqSaved, iqRv, iqGot, irq>>
    /\ IqFrame

\* yield_to(): the same push, then switch_to(thread)
IqYtoLock ==
    /\ InThread /\ ipc = "yto_lock" /\ lkRun = "free"
    /\ lkRun' = "thread"
    /\ ipc' = "yto_push"
    /\ UNCHANGED <<irqOn, lkReap, iqCtx, iqOp, iqSaved, iqRv, iqGot, irq>>
    /\ IqFrame

IqYtoPush ==
    /\ InThread /\ ipc = "yto_push"
    /\ lkRun' = "free"
    /\ ipc' = "yto_switch"
    /\ UNCHANGED <<irqOn, lkReap, iqCtx, iqOp, iqSaved, iqRv, iqGot, irq>>
    /\ IqFrame

IqYtoSwitch ==
    /\ InThread /\ ipc = "yto_switch"
    /\ ipc' = "ready"
    /\ iqOp' = "none"
    /\ UNCHANGED <<irqOn, lkRun, lkReap, iqCtx, iqSaved, iqRv, iqGot, irq>>
    /\ IqFrame

\* terminate_thread(): S_TO_REAP_THREADS.lock().push(..), then reschedule()
IqTtLock ==
    /\ InThread /\ ipc = "tt_lock" /\ lkReap = "free"
    /\ lkReap' = "thread"
    /\ ipc' = "tt_push"
    /\ UNCHANGED <<irqOn, lkRun, iqCtx, iqOp, iqSaved, iqRv, iqGot, irq>>
    /\ IqFrame

IqTtPush ==
    /\ InThread /\ ipc = "tt_push"
    /\ lkReap' = "free"
    /\ ipc' = "g_hold"
    /\ UNCHANGED <<irqOn, lkRun, iqCtx, iqOp, iqSaved, iqRv, iqGot, irq>>
    /\ IqFrame

\* get_thread_to_run(): hold_interrupts() saves the flag and clears it
IqHold ==
    /\ InThread /\ ipc = "g_hold"
    /\ iqSaved' = irqOn
    /\ irqOn' = FALSE
    /\ ipc' = "g_lock"
    /\ UNCHANGED <<lkRun, lkReap, iqCtx, iqOp, iqRv, iqGot, irq>> /\ IqFrame

IqGLock ==
    /\ InThread /\ ipc = "g_lock" /\ lkRun = "free"
    /\ lkRun' = "thread"
    /\ ipc' = "g_pop"
    /\ UNCHANGED <<irqOn, lkReap, iqCtx, iqOp, iqSaved, iqRv, iqGot, irq>>
    /\ IqFrame

\* What the pop can give: the caller itself only when the caller is queued,
\* that is in yield_time().
IqPopOutcomes ==
    IF iqOp = "yield_time" THEN {"other", "self"} ELSE {"none", "other"}

\* the pop; on return the lock guard is dropped, then the interrupt guard,
\* which puts the saved flag back
IqGPop(got) ==
    /\ InThread /\ ipc = "g_pop"
    /\ got \in IqPopOutcomes
    /\ lkRun' = "free"
    /\ irqOn' = iqSaved
    /\ iqGot' = got
    /\ ipc' = IF iqOp = "idle_thread"
              THEN IF got = "none" THEN "id_idle" ELSE "id_start"
              ELSE "rs_switch"
    /\ UNCHANGED <<lkReap, iqCtx, iqOp, iqSaved, iqRv, irq>> /\ IqFrame

\* reschedule() after the pop: switch_to, and arch idle() after a switch to
\* self; with nothing popped, the idle thread unless it is the caller
IqSwitch ==
    /\ InThread /\ ipc = "rs_switch"
    /\ irqOn' = IF iqGot = "self" THEN TRUE ELSE irqOn
    /\ iqCtx' = IF iqGot = "none" THEN "idle"
                ELSE IF iqGot = "other" THEN "thread" ELSE iqCtx
    /\ ipc' = IF iqGot = "none" THEN "idle_top" ELSE "ready"
    /\ iqOp' = "none"
    /\ UNCHANGED <<lkRun, lkReap, iqSaved, iqRv, iqGot, irq>> /\ IqFrame

\* idle_thread(): stop_interrupts() before get_thread_to_run()
IqIdStop ==
    /\ InThread /\ ipc = "id_stop"
    /\ irqOn' = FALSE
    /\ ipc' = "g_hold"
    /\ UNCHANGED <<lkRun, lkReap, iqCtx, iqOp, iqSaved, iqRv, iqGot, irq>>
    /\ IqFrame

\* Faulty variant: the interrupts stay off.
IqIdStartOff ==
    /\ irq = "none" /\ ipc = "id_start"
    /\ ipc' = "id_switch"
    /\ UNCHANGED <<irqOn, lkRun, lkReap, iqCtx, iqOp, iqSaved, iqRv, iqGot,
                   irq>>
    /\ IqFrame

\* start_interrupts() once a thread was popped
IqIdStart ==
    /\ InThread /\ ipc = "id_start"
    /\ irqOn' = TRUE
    /\ ipc' = "id_switch"
    /\ UNCHANGED <<lkRun, lkReap, iqCtx, iqOp, iqSaved, iqRv, iqGot, irq>>
    /\ IqFrame

\* switch_to(thread)
IqIdSwitch ==
    /\ InThread /\ ipc = "id_switch"
    /\ ipc' = "ready"
    /\ iqCtx' = "thread"
    /\ iqOp' = "none"
    /\ UNCHANGED <<irqOn, lkRun, lkReap, iqSaved, iqRv, iqGot, irq>> /\ IqFrame

\* arch idle(): waits for an interrupt, interrupts enabled when it returns
IqIdIdle ==
    /\ InThread /\ ipc = "id_idle"
    /\ irqOn' = TRUE
    /\ ipc' = "id_after_idle"
    /\ UNCHANGED <<lkRun, lkReap, iqCtx, iqOp, iqSaved, iqRv, iqGot, irq>>
    /\ IqFrame

IqIdLoop ==
    /\ InThread /\ ipc = "id_after_idle"
    /\ ipc' = "idle_top"
    /\ iqOp' = "none"
    /\ UNCHANGED <<irqOn, lkRun, lkReap, iqCtx, iqSaved, iqRv, iqGot, irq>>
    /\ IqFrame

\* The timer interrupt: taken only with the flag set, which the CPU clears
\* on entry.
TimerIrq ==
    /\ irq = "none" /\ irqOn
    /\ irq' = "handler"
    /\ irqOn' = FALSE
    /\ UNCHANGED <<lkRun, lkReap, ipc, iqCtx, iqOp, iqSaved, iqRv, iqGot>>
    /\ IqFrame

\* the handler's reschedule(): get_thread_to_run() locks the run queue
IrqLock ==
    /\ irq = "handler"
    /\ IF lkRun = "free"
       THEN lkRun' = "irq" /\ irq' = "locked"
       ELSE irq' = "spin" /\ UNCHANGED lkRun
    /\ UNCHANGED <<irqOn, lkReap, ipc, iqCtx, iqOp, iqSaved, iqRv, iqGot>>
    /\ IqFrame

\* the handler unlocks and the interrupted code goes on, its flag restored
IrqRet ==
    /\ irq = "locked"
    /\ lkRun' = "free"
    /\ irq' = "none"
    /\ irqOn' = TRUE
    /\ UNCHANGED <<lkReap, ipc, iqCtx, iqOp, iqSaved, iqRv, iqGot>> /\ IqFrame

NextIrq ==
    \/ \E op \in IqOps : IqCall(op)
    \/ IqIdleTop
    \/ IqReapLock
    \/ \E some \in BOOLEAN : IqReapBody(some)
    \/ IqYtLock \/ IqYtPush
    \/ IqYtoLock \/ IqYtoPush \/ IqYtoSwitch
    \/ IqTtLock \/ IqTtPush
    \/ IqHold \/ IqGLock
    \/ \E got \in {"none", "other", "self"} : IqGPop(got)
    \/ IqSwitch
    \/ IqIdStop \/ IqIdStart \/ IqIdSwitch \/ IqIdIdle \/ IqIdLoop
    \/ TimerIrq \/ IrqLock \/ IrqRet

SpecIrq == Init /\ [][NextIrq]_vars

\* ================================================================ claims
Count(q, t) == Cardinality({i \in 1..Len(q) : q[i] = t})
WaitSlots == UNION {{<<w, i>> : i \in 1..Len(waitq[w])} : w \in WaitQueues}
WaitCount(t) == Cardinality({s \in WaitSlots : waitq[s[1]][s[2]] = t})
QueueCount(t) == Count(runq, t) + Count(reapq, t) + WaitCount(t)
PopSteps == {"yield_time", "terminate_thread", "reschedule", "idle_thread",
             "idle_thread:reschedule", "wait"}

\* C1: the run queue is first in, first out: the threads popped are, in
\* order, the first threads pushed, what is left in the queue is the rest of
\* them, a pop returns None exactly when every pushed thread was popped
\* before it, and empty() says exactly that.
C1_Fifo ==
    /\ pushed = popped \o runq
    /\ Empty(runq) <=> Len(popped) = Len(pushed)
    /\ last.op = "pop" => (last.got = None <=> last.arg = 1)
    /\ (last.op = "pop" /\ last.got # None) => last.got = Some(popped[Len(popped)])

C1_Witness ==
    /\ Len(pushed) = MaxPush /\ Len(popped) = MaxPush
    /\ pushed[1] # pushed[2]
    /\ last.op = "pop" /\ last.got = None

\* C5: when the reap queue holds the thread that runs reap_threads(), the
\* reaper ends in the panic "Reaping thread from itself" and that thread is
\* not freed; the entries in front of it are reaped, those behind it stay.
C5_SelfReapFatal ==
    [][(last'.op = "reap_threads" /\ Count(reapq, cur) > 0)
          => /\ panic' = "Reaping thread from itself"
             /\ cur \notin freed' /\ cur \in alive'
             /\ \A t \in Tcbs : t \in freed' =>
                   \E i, j \in 1..Len(reapq) : reapq[i] = t /\ reapq[j] = cur /\ i < j
       ]_vars
    /\ [](cur \notin freed)

C5_Witness ==
    /\ last.op = "reap_threads"
    /\ panic = "Reaping thread from itself"
    /\ cur \notin freed /\ freed # {}
    /\ Len(reapq) > 0

C3_NoIdle ==
    [][(Running /\ pc[cur] = "yt_resched" /\ ytAlone)
          => (cur' = cur /\ ~last'.idle)]_vars

\* C3 amended: yield_time() called with the run queue and the reap queue
\* empty pops the caller itself, executes the arch's idle() once and then
\* returns to the caller, with both queues empty again.
C3_IdlesThenReturns ==
    [][(Running /\ pc[cur] = "yt_resched" /\ ytAlone)
          => /\ cur' = cur
             /\ last'.idle
             /\ last'.got = Some(cur)
             /\ pc'[cur] = "ready"
             /\ Empty(runq') /\ Empty(reapq')
             /\ panic' = "none"]_vars

C3_Witness ==
    /\ last.op = "yield_time" /\ ytAlone
    /\ last.idle /\ last.by = cur /\ pc[cur] = "ready"

\* C4: reschedule() with an empty run queue, called on the idle thread,
\* switches nowhere and leaves the live TCBs and all queues as they were;
\* the idle thread is neither freed nor queued.
C4_IdleRescheduleConserves ==
    [][(Running /\ cur = IdleTcb /\ pc[cur] = "idle_resched" /\ Empty(runq))
          => /\ cur' = cur
             /\ runq' = runq /\ waitq' = waitq /\ reapq' = reapq
             /\ alive' = alive /\ freed' = freed
             /\ IdleTcb \in alive'
             /\ QueueCount(IdleTcb)' = 0]_vars

C4_Witness ==
    /\ last.op = "idle_thread:reschedule" /\ last.got = None
    /\ cur = IdleTcb /\ Empty(runq)

\* C6: the exit status of a process is written by exactly one exit_process
\* call and never overwritten; a call that finds it written panics with the
\* race message and does not go on to terminate_thread.
C6_ExitOnce ==
    [][/\ \A p \in Pids : exitStatus[p] # None => exitStatus'[p] = exitStatus[p]
       /\ \A p \in Pids : (exitStatus[p] = None /\ exitStatus'[p] # None)
            => /\ last'.op = "exit_process" /\ last'.by = cur /\ proc[cur] = p
               /\ exitStatus'[p] = Some(last'.arg)
               /\ pc'[cur] = "tt_check"
       /\ (last'.op = "exit_process" /\ exitStatus[proc[cur]] # None)
            => /\ panic' = "Two threads raced to exit"
               /\ pc' = pc /\ runState' = runState /\ reapq' = reapq
               /\ cur' = cur]_vars

C6_Witness ==
    /\ panic = "Two threads raced to exit"
    /\ last.op = "exit_process"
    /\ exitStatus[proc[last.by]] # Some(last.arg)
    /\ runState[last.by] # "Dead"
    /\ \E t \in 0..(nextTid - 1) :
          t # last.by /\ proc[t] = proc[last.by] /\ runState[t] = "Dead"

\* C8: a thread in a wait queue is not in the run queue; wake_one and
\* wake_all take waiters from the front of the wait queue and append them,
\* once each and in waiting order, to the run queue; a run-queue pop takes
\* the front entry and removes it.
C8_WaitWake ==
    /\ [](\A t \in Tcbs : /\ Count(runq, t) <= 1 /\ WaitCount(t) <= 1
                          /\ ~(Count(runq, t) > 0 /\ WaitCount(t) > 0))
    /\ [][/\ last'.op = "wake_one" =>
               \E w \in WaitQueues :
                  /\ Len(waitq[w]) > 0
                  /\ waitq' = [waitq EXCEPT ![w] = Tail(waitq[w])]
                  /\ runq' = Append(runq, Head(waitq[w]))
          /\ last'.op = "wake_all" =>
               \E w \in WaitQueues :
                  /\ waitq' = [waitq EXCEPT ![w] = <<>>]
                  /\ runq' = runq \o waitq[w]
          /\ (last'.op \in PopSteps /\ last'.got # None) =>
                  /\ Len(runq) > 0
                  /\ last'.got = Some(Head(runq))
                  /\ runq' = Tail(runq)
                  /\ Count(runq', last'.got[1]) = 0]_vars

C8_Witness ==
    /\ last.op = "wake_all" /\ last.arg = 2
    /\ Len(runq) >= 2
    /\ \A w \in WaitQueues : Len(waitq[w]) = 0

\* C7: under every interleaving of get_process_local calls by the threads of
\* a process, the cache holds at most one instance per type, and every call
\* for a type returned the instance the cache holds for it.
C7_OneInstance ==
    /\ \A i, j \in 1..Len(pld) : pld[i].type = pld[j].type => i = j
    /\ \A t \in PlThreads : plRet[t] # None =>
          \E i \in 1..Len(pld) : pld[i].type = plWant[t] /\ plRet[t] = Some(pld[i].inst)
    /\ \A t, u \in PlThreads :
          (plRet[t] # None /\ plRet[u] # None /\ plWant[t] = plWant[u])
             => plRet[t] = plRet[u]

\* Two first-time requests for one type raced: t missed under the read lock,
\* u inserted the instance meanwhile, and t now holds the write lock.
C7_Witness ==
    \E t, u \in PlThreads :
        /\ t # u /\ plWant[t] = plWant[u]
        /\ plPc[t] = "locked" /\ plPc[u] = "idle" /\ plRet[u] # None
        /\ pl_find(pld, plWant[t]) = plRet[u]

\* C9: the spawner gets past its waits only after every worker has posted;
\* while it sleeps on an object that object's post is still to come, a post
\* made before the wait stays recorded until the wait consumes it, and the
\* spawner does get past all its waits.
C9_NoLostPost ==
    /\ [](/\ spAt = NumWorkers + 1 => Posted = Workers
          /\ \A w \in Workers : (spAt > w) => wkPc[w] = "done"
          /\ \A w \in Workers : (spAt = w /\ spSt = "sleep") =>
                (wkPc[w] # "done" /\ soWaiter[w])
          /\ \A w \in Workers : (wkPc[w] = "done" /\ spAt <= w
                                  /\ ~(spAt = w /\ spSt = "woken")) => soFlag[w])
    /\ <>[](spAt = NumWorkers + 1 /\ spSt = "run")

C9_Witness ==
    /\ spAt = NumWorkers + 1 /\ spSt = "run"
    /\ spEarly >= 2
    /\ Posted = Workers

\* C10: terminate_thread() on a thread with ID 0 panics before it changes
\* anything: such a thread is never Dead, never in the reap queue, and never
\* past the check.
C10_Tid0Fatal ==
    \A t \in Tcbs : get_tid(t) = 0 =>
        /\ runState[t] # "Dead"
        /\ Count(reapq, t) = 0
        /\ pc[t] \notin {"tt_push", "tt_resched", "tt_unreachable"}
        /\ (pc[t] = "tt_check" /\ last.op = "terminate_thread:check" /\ last.by = t)
              => panic = "TID 0 terminated"

C10_Witness ==
    /\ panic = "TID 0 terminated"
    /\ last.op = "terminate_thread:check" /\ last.by = 0
    /\ runState[0] = "Runnable" /\ Count(reapq, 0) = 0

\* C11: once a thread with a non-zero ID is past the check of
\* terminate_thread() it is Dead and stays Dead, it is in no run or wait
\* queue, it is never the current thread once reschedule() has switched away
\* from it, and reschedule() never comes back to the unreachable!() that
\* follows the call.
TtEntered == {"tt_push", "tt_resched", "tt_unreachable"}

C11_DeadForGood ==
    /\ [](\A t \in Tcbs :
            /\ pc[t] \in TtEntered =>
                  /\ get_tid(t) # 0
                  /\ runState[t] = "Dead"
                  /\ Count(runq, t) = 0
                  /\ WaitCount(t) = 0
            /\ pc[t] = "tt_unreachable" => cur # t
            /\ panic # "unreachable")
    /\ [][\A t \in Tcbs :
            /\ runState[t] = "Dead" => runState'[t] = "Dead"
            /\ pc[t] \in TtEntered => pc'[t] \in TtEntered]_vars

C11_Witness ==
    \E t \in Spawned :
        /\ pc[t] = "tt_unreachable" /\ runState[t] = "Dead"
        /\ t \in freed
        /\ cur \notin {t, IdleTcb}
        /\ last.op = "yield_time"

\* C12: a worker runs its closure to the end and then terminates through
\* terminate_thread(); wait() returns Ok only for a worker that is dead and
\* Err only for one that cannot be found; a handle is released only after
\* the wait its drop performs, that is with the worker dead or not found;
\* and every started worker does get there, every wait() on it returning.
C12_WorkerJoin ==
    /\ [](\A h \in Handles :
            /\ whRet[h] = "Ok" => wtState[h] = "dead"
            /\ whRet[h] = "Err" => wtState[h] = "missing"
            /\ whState[h] = "released" => wtState[h] \in {"dead", "missing"}
            /\ wtState[h] \in {"returned", "dead"} => wtLeft[h] = 0)
    /\ [][\A h \in Handles :
            (wtState'[h] = "dead" /\ wtState[h] # "dead")
                => wtState[h] = "returned"]_vars
    /\ \A h \in Handles :
          /\ (wtState[h] = "run") ~> (wtState[h] = "dead")
          /\ (whState[h] = "waiting") ~> (whState[h] = "held")
          /\ (whState[h] = "dropping") ~> (whState[h] = "released")

C12_Witness ==
    \E h, g \in Handles :
        /\ whState[h] = "released" /\ wtState[h] = "dead"
        /\ whRet[h] = "Ok"
        /\ whState[g] = "held" /\ whRet[g] = "Err"

\* C13: the run-queue lock and the reap-queue lock are only ever taken with
\* interrupts disabled, so the timer handler's reschedule() never finds the
\* run-queue lock held by the code it interrupted: the handler never spins
\* on a lock its own CPU owns.
LockSites == {"reap_lock", "yt_lock", "yto_lock", "tt_lock", "g_lock"}

C13_NoSelfSpin ==
    /\ irq # "spin"
    /\ (InThread /\ ipc \in LockSites) => ~irqOn

\* C18: the idle routine passes the CPU on with interrupts enabled: at its
\* switch_to() of a popped thread, and when arch idle() has returned, the
\* interrupt flag is set, and whenever a thread runs outside the scheduler's
\* operations the flag is set too (the flag is clear only inside a timer
\* handler, which sets it again on return).
C18_IdleLeavesIrqOn ==
    (InThread /\ ipc \in {"id_switch", "id_after_idle", "ready"}) => irqOn

C18_Witness ==
    /\ InThread /\ ipc = "id_switch" /\ irqOn
    /\ iqOp = "idle_thread" /\ iqGot = "other" /\ ~iqSaved

\* C14, as the spec words it: the current thread changes only in a step that
\* calls reschedule() (yield_time, terminate_thread, a bare reschedule, the
\* idle routine's reschedule, a wait).
ReschedSteps == {"yield_time", "terminate_thread", "reschedule",
                 "idle_thread:reschedule", "wait"}

C14_OnlyReschedule ==
    [][cur' # cur => last'.op \in ReschedSteps]_vars

\* C14, amended: the current thread changes only in switch_to(), called by
\* reschedule(), by yield_to() (to the thread it was given, the caller queued
\* behind) and by the idle routine (to the thread it popped).  A step that
\* calls reschedule() leaves the CPU to the front of the run queue, or to the
\* idle thread when the queue is empty; every other step keeps the thread.
C14_SwitchSites ==
    [][/\ last'.op \in ReschedSteps =>
            cur' = IF runq # <<>> THEN Head(runq) ELSE IdleTcb
       /\ cur' # cur =>
            \/ last'.op \in ReschedSteps
            \/ /\ last'.op = "yield_to" /\ last'.by = cur
               /\ cur' \notin alive /\ cur' \in alive'
               /\ runq' = Push(runq, cur)
            \/ /\ last'.op = "idle_thread" /\ cur = IdleTcb
               /\ runq # <<>> /\ cur' = Head(runq) /\ runq' = Tail(runq)]_vars

C14_Witness ==
    /\ last.op = "idle_thread" /\ last.by = IdleTcb
    /\ last.got # None /\ cur = last.got[1]
    /\ ~last.idle

\* C15: a reschedule() that pops a thread takes exactly the front entry off
\* the run queue and switches to it; arch idle() is executed in that call
\* exactly when the popped thread is the caller itself.
C15_SelfIdlesOtherReturns ==
    [][(last'.op \in ReschedSteps /\ last'.got # None) =>
          /\ runq # <<>>
          /\ last'.got = Some(Head(runq))
          /\ runq' = Tail(runq)
          /\ Len(runq') = Len(runq) - 1
          /\ cur' = Head(runq)
          /\ last'.idle = (Head(runq) = cur)]_vars

C15_Witness ==
    /\ last.op \in ReschedSteps /\ last.got # None
    /\ last.got[1] # last.by /\ ~last.idle
    /\ cur = last.got[1]
    /\ Len(runq) > 0

\* C16: a step that is a call of reschedule() and nothing else leaves every
\* run state, every wait queue and the reap queue as they were, and the run
\* queue either as it was (it was empty) or without its front entry.
PureResched == {"yield_time", "terminate_thread", "reschedule",
                "idle_thread:reschedule"}

C16_ReschedulePushesNothing ==
    [][last'.op \in PureResched =>
          /\ runState' = runState
          /\ waitq' = waitq
          /\ reapq' = reapq
          /\ runq' = IF runq = <<>> THEN <<>> ELSE Tail(runq)]_vars

C16_Witness ==
    /\ last.op = "reschedule" /\ last.got # None
    /\ Len(reapq) > 0 /\ Len(runq) = 0
    /\ cur = last.got[1] /\ cur # last.by

\* C17: a pass of the idle routine that reaped a thread calls reschedule()
\* and nothing else; a pass that reaped none pops the run queue and switches
\* to the thread it found, or, finding none, executes arch idle().  So
\* idle() is executed in a pass only after reaping nothing and finding the
\* run queue empty.
IdleSteps == {"idle_thread:reap", "idle_thread", "idle_thread:reschedule"}

C17_IdleOnlyWhenNothingToDo ==
    [][/\ last'.op = "idle_thread:reap" =>
            /\ last'.arg = (IF Len(reapq) > 0 THEN 1 ELSE 0)
            /\ pc'[IdleTcb] = IF Len(reapq) > 0 THEN "idle_resched"
                              ELSE "idle_poll"
            /\ ~last'.idle /\ cur' = cur
       /\ last'.op = "idle_thread:reschedule" =>
            /\ last.op = "idle_thread:reap" /\ last.arg = 1
            /\ ~last'.idle
       /\ last'.op = "idle_thread" =>
            /\ last.op = "idle_thread:reap" /\ last.arg = 0
            /\ last'.idle = (runq = <<>>)
            /\ cur' = IF runq = <<>> THEN cur ELSE Head(runq)
       /\ (last'.op \in IdleSteps /\ last'.idle) =>
            /\ last'.op = "idle_thread"
            /\ last.arg = 0 /\ runq = <<>> /\ reapq = <<>>]_vars

C17_Witness ==
    /\ last.op = "idle_thread" /\ last.idle /\ last.got = None
    /\ cur = IdleTcb /\ pc[cur] = "idle_top"
    /\ freed # {} /\ reapq = <<>> /\ runq = <<>>

\* C19: yield_time() puts the caller at the back of the run queue, behind
\* the threads A1..An already there, and its reschedule() runs A1 (the
\* caller itself when n = 0).  Entries leave the run queue at the front
\* only, one per step, and enter at the back only, and a queued thread gets
\* the CPU only as the front entry: the caller runs again only after
\* A1..An were popped.  With threads that only yield, every queued thread
\* does get the CPU again.
C19_FifoRotation ==
    /\ [][/\ last'.op = "yield_time:push" => runq' = Append(runq, cur)
          /\ last'.op = "yield_time" =>
                /\ runq # <<>> /\ runq[Len(runq)] = cur
                /\ cur' = Head(runq)
                /\ runq' = Tail(runq)
          /\ \E k \in {0, 1}, n \in 0..1 :
                /\ Len(runq) >= k
                /\ Len(runq') = Len(runq) - k + n
                /\ \A i \in 1..(Len(runq) - k) : runq'[i] = runq[i + k]
          /\ (cur' # cur /\ Count(runq, cur') > 0) => cur' = Head(runq)]_vars
    /\ \A t \in Tcbs : (Count(runq, t) > 0) ~> (cur = t)

C19_Witness ==
    /\ last.op = "yield_time" /\ last.by = 0
    /\ cur = 1 /\ runq = <<2, 0>>
    /\ last.got = Some(1) /\ ~last.idle

\* C20: every thread in the reap queue is Dead and has a non-zero thread ID,
\* and no Dead thread is in the run queue or in a wait queue.
C20_ReapQueueHoldsTheDead ==
    /\ \A i \in 1..Len(reapq) :
          /\ runState[reapq[i]] = "Dead"
          /\ get_tid(reapq[i]) # 0
    /\ \A t \in Tcbs : runState[t] = "Dead" =>
          /\ Count(runq, t) = 0
          /\ WaitCount(t) = 0

C20_Witness ==
    /\ Len(reapq) = 2
    /\ runState[reapq[1]] = "Dead" /\ runState[reapq[2]] = "Dead"
    /\ cur = 0 /\ pc[cur] = "ready"

\* C21: a thread is in the reap queue at most once and never after it was
\* freed; TCBs are freed by reap_threads() only, which leaves the reap queue
\* empty, frees every thread it popped and reports whether it popped any;
\* and when the idle routine or a yield_time() caller keeps getting to its
\* reap_threads(), every terminated thread is eventually freed.
ReapSteps == {"idle_thread:reap", "yield_time:reap"}
InReapq == {reapq[i] : i \in 1..Len(reapq)}

C21_DeadAreReaped ==
    /\ [](\A t \in Tcbs :
            /\ Count(reapq, t) <= 1
            /\ t \in freed => (Count(reapq, t) = 0 /\ runState[t] = "Dead"))
    /\ [][/\ freed \subseteq freed'
          /\ freed' # freed => last'.op \in ReapSteps
          /\ last'.op \in ReapSteps =>
                /\ reapq' = <<>>
                /\ freed' = freed \cup InReapq
                /\ freed \cap InReapq = {}
                /\ panic' = "none"
          /\ last'.op = "idle_thread:reap" =>
                last'.arg = (IF Len(reapq) > 0 THEN 1 ELSE 0)]_vars
    /\ ([]<>(last.op \in ReapSteps)) =>
          \A t \in Spawned : (runState[t] = "Dead") ~> (t \in freed)

C21_Witness ==
    /\ last.op = "yield_time:reap" /\ last.by = 0
    /\ freed = Spawned
    /\ reapq = <<>>

\* C22, as the spec words it: while a thread is in exit_process() (the call
\* itself and the terminate_thread() it ends in), every other thread of its
\* process keeps its run state and its position in the run queue and in the
\* wait queues.
ExitTail == {"terminate_thread:check", "terminate_thread:push",
             "terminate_thread"}
ExitStep ==
    \/ last'.op = "exit_process"
    \/ /\ last'.op \in ExitTail /\ last'.by = cur
       /\ exitStatus[proc[cur]] # None
Siblings == {u \in alive \ {cur, IdleTcb} : proc[u] = proc[cur]}
KeepsPlace(q, r, u) ==
    \A i \in 1..Len(q) : q[i] = u => (i <= Len(r) /\ r[i] = u)

Created == ({0, IdleTcb} \cup 1..(nextTid - 1))
ProcAlive(p) == p = 0 \/ \E t \in alive : proc[t] = p

AboutToReap ==
    /\ Running
    /\ \/ pc[cur] = "yt_reap"
       \/ cur = IdleTcb /\ pc[cur] = "idle_top"

C23_NoSelfReap ==
    /\ panic # "Reaping thread from itself"
    /\ AboutToReap => Count(reapq, cur) = 0

C23_Witness ==
    /\ last.op \in ReapSteps
    /\ \E t \in Spawned :
          /\ t \in freed /\ pc[t] = "tt_resched"
    /\ panic = "none"

\* C24: the drop of a NIC Registration comes to its end: once the drop
\* holds the INTERFACES_LIST mutex and waits for the worker, the worker
\* terminates, the slot is emptied and the mutex released; and a register()
\* that has spawned its worker gets its slot.
C24_DropCompletes ==
    \A h \in Handles :
        /\ (rgPc[h] = "dropping") ~>
              \/ /\ rgPc[h] = "dropped"
                 /\ ifList[rgIndex[h]] = None
                 /\ ifLock # h
              \/ nicPanic # "none"
        /\ (rgPc[h] = "made") ~> (rgPc[h] = "live" \/ nicPanic # "none")

\* What the code does: a drop never ends, and holds the mutex from then on.
C24_DropHangs ==
    /\ \A h \in Handles : rgPc[h] # "dropped"
    /\ ifLock # 0 => rgPc[ifLock] = "dropping"
    /\ \A i \in 1..Len(ifList) : ifList[i] # None

C24_Blocked ==
    \E h, g \in Handles :
        /\ rgPc[h] = "dropping" /\ ifLock = h
        /\ rgPc[g] = "made"
        /\ nicPanic = "none"
====
